---- MODULE Spec2Model ----
(***************************************************************************)
(* A model of hey-apm's synthetic-event engine:                            *)
(*   - work.Run and its participants (generators, timeout watchdog,        *)
(*     interrupt watchdog), raced by a workgroup.Group;                    *)
(*   - the per-generator pulse source (throttle);                          *)
(*   - agent.Tracer: the roundTripper, its aggregation goroutine, Close.   *)
(*                                                                         *)
(* workgroup.Group.Run starts one goroutine per added function, each of    *)
(* which sends its function's return value on a result channel with room   *)
(* for all of them; Run receives one value, closes the stop channel, waits *)
(* for every goroutine and returns the value received.                     *)
(*                                                                         *)
(* A goroutine is a process with a position (..Pc); one action is one      *)
(* step of one goroutine between two points where it can be interleaved    *)
(* with the others.  A select with several ready cases is a choice among   *)
(* the actions of those cases.  Time is not measured: a tick of a ticker   *)
(* and the expiry of a timer can happen at any moment.                     *)
(***************************************************************************)
EXTENDS Integers, Sequences, FiniteSets, TLC

\* ------------------------------------------------------------- bounds
MaxLimit == 2
MaxStructs == 2
NumCalls == 2
MaxAccepted == 1
MaxErrors == 1
MaxTime == 1
MaxUrls == 3
MaxGetWork == 2

\* ------------------------------------------------- program constants
Transaction == 0
Error == 1
\* main hands Run two workloads: one of transactions, one of errors
NumWorkloads == 2
\* main's defaults for the least number of spans of a transaction (-sm) and
\* of frames of an error (-em)
spanMinLimit == 1
errorFrameMinLimit == 1

Nil == "nil"
InterruptErr == "interrupt"

VARIABLES
    \* work.Run
    workload,      \* the []Workload argument: a sequence of records
    runTimeout,    \* the runTimeout argument
    runPc,         \* position of Run
    runErr,        \* err := w.Run()
    done,          \* the workgroup's stop channel is closed
    first,         \* the head of the workgroup's result channel: who returned
                   \* first, and with what
    ret,           \* each participant's return value, sent on the result channel
    gpc,           \* position of each generator
    sent,          \* each generator's loop counter
    started,       \* pulses consumed by each generator
    emitted,       \* events each generator handed to the tracer
    afterCancel,   \* events each generator started with the stop channel closed
    thPc,          \* position of each throttle goroutine
    tx,            \* per generator, the transaction of its current iteration
    tpc,           \* position of the timeout watchdog
    spc,           \* position of the interrupt watchdog
    sigc,          \* signals buffered in handleSignals' channel c
    sigFirst,      \* an interrupt was delivered before any participant returned
    report,        \* the Report of Run
    flushedN,      \* events the tracer had delivered or dropped when FlushAll
                   \* last returned
    \* agent.Tracer
    rtPc,          \* position of each RoundTrip call
    rtReq,         \* the request of each RoundTrip call and its outcome
    rtBody,        \* the body b each RoundTrip call read
    aggPc,         \* position of the aggregation goroutine of NewTracer
    aggResp,       \* the response it received
    wg,            \* rt.wg: the counter of outstanding responses
    chanClosed,    \* rt.c is closed
    closePc,       \* position of Tracer.Close
    waitEarly,     \* Close's rt.wg.Wait() returned while the aggregation
                   \* goroutine held a body it had not finished
    Accepted,      \* TransportStats.Accepted
    TopErrors,     \* TransportStats.TopErrors
    panicked,      \* the panic that ended the process, if any
    harvestedN,    \* how many bodies RoundTrip sent on rt.c
    harvestedSum,  \* the sum of the "accepted" values of those bodies
    processedN,    \* how many bodies the aggregation goroutine processed and
                   \* marked done
    \* target.Target
    urls,          \* the urls argument of NewTargetFromOptions
    cfg,           \* the Config the options produce
    payload,       \* what buildBody returns
    tgPc,          \* "new" before NewTargetFromOptions, "built" after
    URLs,          \* Target.URLs: a ring of destinations and the element pointed at
    Body,          \* Target.Body
    Header,        \* Target.Config.Header
    visited,       \* the ring elements pointed at so far, in order
    work,          \* the descriptor the last GetWork returned
    getWorkN       \* the number of GetWork calls

runVars == <<workload, runTimeout, runPc, runErr, done, first, ret, gpc, sent,
             started, emitted, afterCancel, thPc, tx, tpc, spc, sigc,
             sigFirst, report, flushedN>>

tracerVars == <<rtPc, rtReq, rtBody, aggPc, aggResp, wg, chanClosed, closePc,
                waitEarly,
                Accepted, TopErrors, panicked, harvestedN, harvestedSum,
                processedN>>

targetVars == <<urls, cfg, payload, tgPc, URLs, Body, Header, visited, work,
                getWorkN>>

vars == <<runVars, tracerVars, targetVars>>

W == 1..NumWorkloads

\* the workloads of the list Run was given
Given == DOMAIN workload

\* ------------------------------------------------------------ helpers

\* strconv.Itoa on the span counts the model reaches
Itoa(n) == IF n < 10 THEN <<"0","1","2","3","4","5","6","7","8","9">>[n + 1]
           ELSE "many"

\* Workload, with Max >= Min as main clamps it.  The frames of an error are
\* no state of the run, so an error workload keeps main's least frame count.
Workloads(et) ==
    { wk \in [EventType : {et}, Limit : 0..MaxLimit,
              MinStructs : 0..MaxStructs, MaxStructs : 0..MaxStructs] :
        /\ wk.MinStructs <= wk.MaxStructs
        /\ et = Error => /\ wk.MinStructs = errorFrameMinLimit
                         /\ wk.MaxStructs = errorFrameMinLimit }

\* the workload list main builds: transactions, then errors
MainWorkloads ==
    { <<t, e>> : t \in Workloads(Transaction), e \in Workloads(Error) }

\* the same list with main's default least span count as the fixed span count
DefaultWorkloads ==
    { l \in MainWorkloads : /\ l[1].MinStructs = spanMinLimit
                            /\ l[1].MaxStructs = spanMinLimit }

\* a list of one workload that generates events
SingleWorkloads ==
    { <<wk>> : wk \in { x \in Workloads(Transaction) \cup Workloads(Error) :
                          x.Limit > 0 } }

\* Run adds a generator for a workload only when its Limit is positive
HasGeneratorAlways(wk) == TRUE
HasGenerator(wk) == wk.Limit > 0

\* the loop condition of both generators
LoopCondLE(s, limit) == s <= limit
LoopCond(s, limit) == s < limit

\* the participants of the workgroup: generators 1..NumWorkloads, then the
\* two watchdogs
TimeoutP == NumWorkloads + 1
SignalP == NumWorkloads + 2
Participants == 1..(NumWorkloads + 2)

None == "none"
NoResult == [who |-> 0, err |-> None]

\* a participant's goroutine sends its return value on the buffered result
\* channel: result <- fn(stop)
Return(who, err) ==
    /\ ret' = [ret EXCEPT ![who] = err]
    /\ first' = IF first = NoResult THEN [who |-> who, err |-> err] ELSE first

\* the locals of one iteration of the transaction generator's loop: tx (its
\* number, tag, ended), spanCount, i (spawned), wg, and the progress of the
\* span goroutines that captured this iteration's ctx
NewTx(id, n) == [id |-> id, spanCount |-> n, spawned |-> 0, sStarted |-> 0,
                 sEnded |-> 0, wg |-> 0, tag |-> "", ended |-> FALSE]
NoTx == NewTx(0, 0)

\* the zero time.Time, earlier than every reading of the clock
NoTime == -1

\* Report, before any of its fields is set
NoReport == [Start |-> NoTime, Stop |-> NoTime, End |-> NoTime, Stats |-> 0]

\* time.Now(): the clock does not run backwards, so a reading is no earlier
\* than the reading before it
Now(last) == { t \in 0..MaxTime : t >= last }

\* t.FlushAll() blocks until every event handed to the tracer so far has been
\* delivered or dropped
FlushAll(em) == em[1] + em[2]

\* t.Stats(): the events the tracer has delivered or dropped
Stats(n) == n

\* ---------------------------------------------------------------- Init

RunArgs(lists, timeouts) ==
    /\ workload \in lists
    /\ runTimeout \in timeouts

RunFresh ==
    /\ runPc = "start"
    /\ runErr = Nil
    /\ done = FALSE
    /\ first = NoResult
    /\ ret = [p \in Participants |-> None]
    /\ gpc = [w \in W |-> "absent"]
    /\ sent = [w \in W |-> 0]
    /\ started = [w \in W |-> 0]
    /\ emitted = [w \in W |-> 0]
    /\ afterCancel = [w \in W |-> 0]
    /\ thPc = [w \in W |-> "none"]
    /\ tx = [w \in W |-> NoTx]
    /\ tpc = "absent"
    /\ spc = "absent"
    /\ sigc = 0
    /\ sigFirst = FALSE
    /\ report = NoReport
    /\ flushedN = 0

\* ------------------------------------------------------------- work.Run

\* lines 47-70: the participants are added, report.Start is read (time is
\* counted from this reading) and w.Run starts one goroutine each
RunStart ==
    /\ runPc = "start"
    /\ runPc' = "waiting"
    /\ gpc' = [w \in W |-> IF w \in Given /\ HasGenerator(workload[w])
                             THEN "loop" ELSE "absent"]
    /\ thPc' = [w \in W |-> IF w \in Given /\ HasGenerator(workload[w])
                              THEN "recv" ELSE "none"]
    /\ tpc' = IF runTimeout > 0 THEN "select" ELSE "absent"
    /\ spc' = "select"
    /\ report' = [report EXCEPT !.Start = 0]
    /\ UNCHANGED <<targetVars, tracerVars, flushedN>>
    /\ UNCHANGED <<workload, runTimeout, runErr, done, first, ret, sent, started,
                   emitted, afterCancel, tx, sigc, sigFirst>>

\* the value w.Run takes from the result channel: its head
ReceivedNonNil(f, r) ==
    IF \E p \in Participants : r[p] \notin {None, Nil}
    THEN r[CHOOSE p \in Participants : r[p] \notin {None, Nil}]
    ELSE f.err
Received(f, r) == f.err

\* w.Run's deferred close(stop)
StopLeftOpen == FALSE
StopClosed == TRUE

\* w.Run: return <-result, with the deferred close(stop)
RunRecv ==
    /\ runPc = "waiting"
    /\ first # NoResult
    /\ runErr' = Received(first, ret)
    /\ done' = StopClosed
    /\ runPc' = "joining"
    /\ UNCHANGED <<targetVars, tracerVars, report, flushedN>>
    /\ UNCHANGED <<workload, runTimeout, first, ret, gpc, sent, started, emitted,
                   afterCancel, thPc, tx, tpc, spc, sigc, sigFirst>>

\* w.Run's deferred wg.Wait(): every participant's goroutine has returned
AllReturnedAtOnce == TRUE
AllReturned ==
    /\ \A w \in W : gpc[w] \in {"absent", "returned"}
    /\ tpc \in {"absent", "returned"}
    /\ spc = "returned"

\* w.Run: the deferred wg.Wait, then report.Stop (line 71)
RunJoin ==
    /\ runPc = "joining"
    /\ AllReturned
    /\ runPc' = "stopped"
    /\ \E t \in Now(report.Start) : report' = [report EXCEPT !.Stop = t]
    /\ UNCHANGED <<targetVars, tracerVars, flushedN>>
    /\ UNCHANGED <<workload, runTimeout, runErr, done, first, ret, gpc, sent,
                   started, emitted, afterCancel, thPc, tx, tpc, spc, sigc, sigFirst>>

\* lines 72-73: t.FlushAll(), report.End
RunFlush ==
    /\ runPc = "stopped"
    /\ runPc' = "flushed"
    /\ flushedN' = FlushAll(emitted)
    /\ \E t \in Now(report.Stop) : report' = [report EXCEPT !.End = t]
    /\ UNCHANGED <<targetVars, tracerVars>>
    /\ UNCHANGED <<workload, runTimeout, runErr, done, first, ret, gpc, sent,
                   started, emitted, afterCancel, thPc, tx, tpc, spc, sigc, sigFirst>>

\* lines 74-75: report.Stats, return report, err
RunReturn ==
    /\ runPc = "flushed"
    /\ runPc' = "returned"
    /\ report' = [report EXCEPT !.Stats = Stats(flushedN)]
    /\ UNCHANGED <<targetVars, tracerVars, flushedN>>
    /\ UNCHANGED <<workload, runTimeout, runErr, done, first, ret, gpc, sent,
                   started, emitted, afterCancel, thPc, tx, tpc, spc, sigc, sigFirst>>

\* ------------------------------------------------------------- throttle

\* the throttle goroutine receives a tick and offers a pulse on its
\* unbuffered channel
throttle(w) ==
    /\ thPc[w] = "recv"
    /\ thPc' = [thPc EXCEPT ![w] = "send"]
    /\ UNCHANGED <<targetVars, tracerVars, report, flushedN>>
    /\ UNCHANGED <<workload, runTimeout, runPc, runErr, done, first, ret, gpc,
                   sent, started, emitted, afterCancel, tx, tpc, spc, sigc, sigFirst>>

\* ----------------------------------------------------------- generators

\* for sent < limit fails: return nil
generatorFinish(w) ==
    /\ gpc[w] = "loop"
    /\ ~LoopCond(sent[w], workload[w].Limit)
    /\ gpc' = [gpc EXCEPT ![w] = "returned"]
    /\ Return(w, Nil)
    /\ UNCHANGED <<targetVars, tracerVars, report, flushedN>>
    /\ UNCHANGED <<workload, runTimeout, runPc, runErr, done, sent, started,
                   emitted, afterCancel, thPc, tx, tpc, spc, sigc, sigFirst>>

\* select: case <-done: return nil
generatorDone(w) ==
    /\ gpc[w] = "loop"
    /\ LoopCond(sent[w], workload[w].Limit)
    /\ done
    /\ gpc' = [gpc EXCEPT ![w] = "returned"]
    /\ Return(w, Nil)
    /\ UNCHANGED <<targetVars, tracerVars, report, flushedN>>
    /\ UNCHANGED <<workload, runTimeout, runPc, runErr, done, sent, started,
                   emitted, afterCancel, thPc, tx, tpc, spc, sigc, sigFirst>>

\* select: case <-throttle: the pulse is taken and an event begins.  A
\* transaction generator starts the transaction and draws spanCount.
generatorPulse(w) ==
    /\ gpc[w] = "loop"
    /\ LoopCond(sent[w], workload[w].Limit)
    /\ thPc[w] = "send"
    /\ thPc' = [thPc EXCEPT ![w] = "recv"]
    /\ started' = [started EXCEPT ![w] = @ + 1]
    /\ afterCancel' = [afterCancel EXCEPT ![w] = IF done THEN @ + 1 ELSE @]
    /\ IF workload[w].EventType = Transaction
       THEN \E n \in workload[w].MinStructs .. workload[w].MaxStructs :
              /\ tx' = [tx EXCEPT ![w] = NewTx(sent[w] + 1, n)]
              /\ gpc' = [gpc EXCEPT ![w] = "tx"]
       ELSE /\ gpc' = [gpc EXCEPT ![w] = "err"]
            /\ UNCHANGED tx
    /\ UNCHANGED <<targetVars, tracerVars, report, flushedN>>
    /\ UNCHANGED <<workload, runTimeout, runPc, runErr, done, first, ret, sent,
                   emitted, tpc, spc, sigc, sigFirst>>

\* errors, lines 159-160: tracer.NewError(...).Send(); sent++
errorsSend(w) ==
    /\ gpc[w] = "err"
    /\ emitted' = [emitted EXCEPT ![w] = @ + 1]
    /\ sent' = [sent EXCEPT ![w] = @ + 1]
    /\ gpc' = [gpc EXCEPT ![w] = "loop"]
    /\ UNCHANGED <<targetVars, tracerVars, report, flushedN>>
    /\ UNCHANGED <<workload, runTimeout, runPc, runErr, done, first, ret, started,
                   afterCancel, thPc, tx, tpc, spc, sigc, sigFirst>>

\* transactions, lines 109-115: wg.Add(1); go func() {...}()
transactionsSpawn(w) ==
    /\ gpc[w] = "tx"
    /\ tx[w].spawned < tx[w].spanCount
    /\ tx' = [tx EXCEPT ![w].spawned = @ + 1, ![w].wg = @ + 1]
    /\ UNCHANGED <<targetVars, tracerVars, report, flushedN>>
    /\ UNCHANGED <<workload, runTimeout, runPc, runErr, done, first, ret, gpc,
                   sent, started, emitted, afterCancel, thPc, tpc, spc, sigc, sigFirst>>

\* a span goroutine spawned in this iteration: apm.StartSpan(ctx, ...)
spanStart(w) ==
    /\ tx[w].sStarted < tx[w].spawned
    /\ tx' = [tx EXCEPT ![w].sStarted = @ + 1]
    /\ UNCHANGED <<targetVars, tracerVars, report, flushedN>>
    /\ UNCHANGED <<workload, runTimeout, runPc, runErr, done, first, ret, gpc,
                   sent, started, emitted, afterCancel, thPc, tpc, spc, sigc, sigFirst>>

\* the same goroutine: span.End(); wg.Done()
spanEnd(w) ==
    /\ tx[w].sEnded < tx[w].sStarted
    /\ tx' = [tx EXCEPT ![w].sEnded = @ + 1, ![w].wg = @ - 1]
    /\ UNCHANGED <<targetVars, tracerVars, report, flushedN>>
    /\ UNCHANGED <<workload, runTimeout, runPc, runErr, done, first, ret, gpc,
                   sent, started, emitted, afterCancel, thPc, tpc, spc, sigc, sigFirst>>

\* wg.Wait() returns when the transaction's WaitGroup counter is zero
WaitReturnsAtOnce(t) == TRUE
WaitReturns(t) == t.wg = 0

\* transactions, lines 116-119: wg.Wait(); SetTag("spans", ...); tx.End(); sent++
transactionsEnd(w) ==
    /\ gpc[w] = "tx"
    /\ tx[w].spawned = tx[w].spanCount
    /\ WaitReturns(tx[w])
    /\ tx' = [tx EXCEPT ![w].tag = Itoa(tx[w].spanCount), ![w].ended = TRUE]
    /\ emitted' = [emitted EXCEPT ![w] = @ + 1]
    /\ sent' = [sent EXCEPT ![w] = @ + 1]
    /\ gpc' = [gpc EXCEPT ![w] = "loop"]
    /\ UNCHANGED <<targetVars, tracerVars, report, flushedN>>
    /\ UNCHANGED <<workload, runTimeout, runPc, runErr, done, first, ret, started,
                   afterCancel, thPc, tpc, spc, sigc, sigFirst>>

\* -------------------------------------------------------------- timeout

\* what the watchdog returns when time.After(d) fires
TimeoutExpiredErr == "timeout"
TimeoutExpired == Nil

timeoutDone ==
    /\ tpc = "select"
    /\ done
    /\ tpc' = "returned"
    /\ Return(TimeoutP, Nil)
    /\ UNCHANGED <<targetVars, tracerVars, report, flushedN>>
    /\ UNCHANGED <<workload, runTimeout, runPc, runErr, done, gpc, sent,
                   started, emitted, afterCancel, thPc, tx, spc, sigc, sigFirst>>

timeoutFire ==
    /\ tpc = "select"
    /\ tpc' = "returned"
    /\ Return(TimeoutP, TimeoutExpired)
    /\ UNCHANGED <<targetVars, tracerVars, report, flushedN>>
    /\ UNCHANGED <<workload, runTimeout, runPc, runErr, done, gpc, sent,
                   started, emitted, afterCancel, thPc, tx, spc, sigc, sigFirst>>

\* -------------------------------------------------------- handleSignals

\* the process receives an interrupt while the watchdog listens (after its
\* signal.Notify, before it returns): the runtime puts it in c, which has
\* room for one
Interrupt ==
    /\ spc = "select"
    /\ sigc = 0
    /\ sigc' = 1
    /\ sigFirst' = (sigFirst \/ first = NoResult)
    /\ UNCHANGED <<targetVars, tracerVars, report, flushedN>>
    /\ UNCHANGED <<workload, runTimeout, runPc, runErr, done, first, ret, gpc,
                   sent, started, emitted, afterCancel, thPc, tx, tpc, spc>>

\* what the watchdog returns for a received signal: errs.New(sig.String())
SignalErrNil == Nil
SignalErr == InterruptErr

handleSignalsDone ==
    /\ spc = "select"
    /\ done
    /\ spc' = "returned"
    /\ Return(SignalP, Nil)
    /\ UNCHANGED <<targetVars, tracerVars, report, flushedN>>
    /\ UNCHANGED <<workload, runTimeout, runPc, runErr, done, gpc, sent,
                   started, emitted, afterCancel, thPc, tx, tpc, sigc, sigFirst>>

handleSignalsRecv ==
    /\ spc = "select"
    /\ sigc = 1
    /\ sigc' = 0
    /\ spc' = "returned"
    /\ Return(SignalP, SignalErr)
    /\ UNCHANGED <<targetVars, tracerVars, report, flushedN>>
    /\ UNCHANGED <<workload, runTimeout, runPc, runErr, done, gpc, sent,
                   started, emitted, afterCancel, thPc, tx, tpc, sigFirst>>

\* --------------------------------------------------------- agent.Tracer

Calls == 1..NumCalls

IngestPaths == {"/intake/v2/events", "/intake/v2/rum/events"}
Paths == IngestPaths \cup {"/config/v1/agents"}

Messages == {"queue is full", "validation error"}

SeqsUpTo(S, n) == UNION { [1..k -> S] : k \in 0..n }

\* a response body: one that is no JSON object (Unparsable), or a document
\* with an optional "accepted" number (Absent: no such field) and a list of
\* "errors", each with a message
Absent == -1
Unparsable == [parsable |-> FALSE, accepted |-> Absent, errors |-> <<>>]
Bodies == [parsable : {TRUE}, accepted : {Absent} \cup (1..MaxAccepted),
           errors : SeqsUpTo(Messages, MaxErrors)]
          \cup {Unparsable}

\* conv.AsFloat64(m, "accepted"): the number, or zero
AsFloat64(m) == IF m.accepted = Absent THEN 0 ELSE m.accepted

\* conv.AsSlice(m, "errors") and conv.AsString(i, "message")
AsSlice(m) == m.errors
AsString(i) == i

\* strcoll.Contains(e, list)
Contains(e, list) == \E k \in 1..Len(list) : list[k] = e

\* lines 71-76: each message is appended unless TopErrors holds it already
AddErrorsAll(top, errs) == top \o errs
RECURSIVE AddErrors(_, _)
AddErrors(top, errs) ==
    IF errs = <<>> THEN top
    ELSE LET e == AsString(Head(errs))
         IN AddErrors(IF Contains(e, top) THEN top ELSE Append(top, e),
                      Tail(errs))

\* the transport's error, and no error
TransportErr == "connection refused"
NoErr == ""

\* a request and what RoundTrip did with it: it was for an ingestion path, it
\* was tagged verbose, the transport's error and the error returned
NoReq == [ingestion |-> FALSE, verbose |-> FALSE, terr |-> NoErr, err |-> NoErr]

TracerFresh ==
    /\ rtPc = [c \in Calls |-> "idle"]
    /\ rtReq = [c \in Calls |-> NoReq]
    /\ waitEarly = FALSE
    /\ rtBody = [c \in Calls |-> Unparsable]
    /\ aggPc = "recv"
    /\ aggResp = Unparsable
    /\ wg = 0
    /\ chanClosed = FALSE
    /\ closePc = "idle"
    /\ Accepted = 0
    /\ TopErrors = <<>>
    /\ panicked = ""
    /\ harvestedN = 0
    /\ harvestedSum = 0
    /\ processedN = 0

Running == panicked = ""

\* lines 90-111: a body is harvested when the path is an ingestion path, the
\* transport returned no error and a body that could be read
HarvestsAnyPath(ingest, out) == out = "ok"
Harvests(ingest, out) == ingest /\ out = "ok"

\* RoundTrip, lines 90-111: a request to another path is passed through; a
\* request to an ingestion path is tagged verbose; a transport error, an
\* empty body or a failed read returns without harvesting; otherwise the body
\* b is read and about to be sent on rt.c.  The calls are numbered in the
\* order in which they start.
RoundTripCall(c) ==
    /\ Running
    /\ rtPc[c] = "idle"
    /\ \A d \in Calls : d < c => rtPc[d] # "idle"
    /\ \E path \in Paths, out \in {"err", "nobody", "readerr", "ok"} :
         LET ingest == path \in IngestPaths
             terr == IF out = "err" THEN TransportErr ELSE NoErr
         IN /\ rtReq' = [rtReq EXCEPT ![c] = [ingestion |-> ingest,
                                               verbose |-> ingest,
                                               terr |-> terr, err |-> terr]]
            /\ IF Harvests(ingest, out)
               THEN \E b \in Bodies :
                      /\ rtPc' = [rtPc EXCEPT ![c] = "send"]
                      /\ rtBody' = [rtBody EXCEPT ![c] = b]
               ELSE /\ rtPc' = [rtPc EXCEPT ![c] = "returned"]
                    /\ UNCHANGED rtBody
    /\ UNCHANGED <<aggPc, aggResp, wg, chanClosed, closePc, waitEarly, Accepted,
                   TopErrors, panicked, harvestedN, harvestedSum, processedN>>
    /\ UNCHANGED <<runVars, targetVars>>

\* line 112: rt.c <- b, received by the aggregation goroutine (line 65); the
\* channel has no buffer
RoundTripSend(c) ==
    /\ Running
    /\ rtPc[c] = "send"
    /\ ~chanClosed
    /\ aggPc = "recv"
    /\ aggResp' = rtBody[c]
    /\ aggPc' = "got"
    /\ harvestedN' = harvestedN + 1
    /\ harvestedSum' = harvestedSum + AsFloat64(rtBody[c])
    /\ rtPc' = [rtPc EXCEPT ![c] = "add"]
    /\ UNCHANGED <<rtReq, rtBody, wg, chanClosed, closePc, waitEarly, Accepted, TopErrors,
                   panicked, processedN>>
    /\ UNCHANGED <<runVars, targetVars>>

\* line 112 with rt.c closed: a send on a closed channel panics
RoundTripSendClosed(c) ==
    /\ Running
    /\ rtPc[c] = "send"
    /\ chanClosed
    /\ panicked' = "send on closed channel"
    /\ UNCHANGED <<rtPc, rtReq, rtBody, aggPc, aggResp, wg, chanClosed, closePc, waitEarly,
                   Accepted, TopErrors, harvestedN, harvestedSum, processedN>>
    /\ UNCHANGED <<runVars, targetVars>>

\* lines 113-119: rt.wg.Add(1), the body is restored, return
RoundTripAdd(c) ==
    /\ Running
    /\ rtPc[c] = "add"
    /\ wg' = wg + 1
    /\ rtPc' = [rtPc EXCEPT ![c] = "returned"]
    /\ rtBody' = [rtBody EXCEPT ![c] = Unparsable]
    /\ UNCHANGED <<rtReq, aggPc, aggResp, chanClosed, closePc, waitEarly,
                   Accepted, TopErrors, panicked, harvestedN, harvestedSum,
                   processedN>>
    /\ UNCHANGED <<runVars, targetVars>>

\* what the aggregation goroutine does with a body that does not parse:
\* line 68, return
OnParseError == "exited"

\* lines 66-76: json.Unmarshal, then the statistics are updated
aggregate ==
    /\ Running
    /\ aggPc = "got"
    /\ IF aggResp.parsable
       THEN /\ Accepted' = Accepted + AsFloat64(aggResp)
            /\ TopErrors' = AddErrors(TopErrors, AsSlice(aggResp))
            /\ aggPc' = "done"
            /\ UNCHANGED aggResp
       ELSE /\ aggPc' = OnParseError
            /\ aggResp' = Unparsable
            /\ UNCHANGED <<Accepted, TopErrors>>
    /\ UNCHANGED <<rtPc, rtReq, rtBody, wg, chanClosed, closePc, waitEarly,
                   panicked, harvestedN, harvestedSum, processedN>>
    /\ UNCHANGED <<runVars, targetVars>>

\* line 77: rt.wg.Done(); a WaitGroup counter below zero panics
aggregateDone ==
    /\ Running
    /\ aggPc = "done"
    /\ wg' = wg - 1
    /\ panicked' = IF wg - 1 < 0 THEN "negative WaitGroup counter" ELSE panicked
    /\ aggPc' = "recv"
    /\ aggResp' = Unparsable
    /\ processedN' = processedN + 1
    /\ UNCHANGED <<rtPc, rtReq, rtBody, chanClosed, closePc, waitEarly, Accepted, TopErrors,
                   harvestedN, harvestedSum>>
    /\ UNCHANGED <<runVars, targetVars>>

\* line 65 with rt.c closed: the receive yields nil, which does not parse
aggregateClosed ==
    /\ Running
    /\ aggPc = "recv"
    /\ chanClosed
    /\ aggPc' = OnParseError
    /\ UNCHANGED <<rtPc, rtReq, rtBody, aggResp, wg, chanClosed, closePc, waitEarly, Accepted,
                   TopErrors, panicked, harvestedN, harvestedSum, processedN>>
    /\ UNCHANGED <<runVars, targetVars>>

\* Close, line 31: t.Tracer.Close()
CloseTracer ==
    /\ Running
    /\ closePc = "idle"
    /\ closePc' = "wait"
    /\ UNCHANGED <<waitEarly, rtPc, rtReq, rtBody, aggPc, aggResp, wg, chanClosed, Accepted,
                   TopErrors, panicked, harvestedN, harvestedSum, processedN>>
    /\ UNCHANGED <<runVars, targetVars>>

\* rt.wg.Wait() returns when the counter is zero
WgWaitReturns(n) == n = 0

\* Close, line 33: rt.wg.Wait()
CloseWait ==
    /\ Running
    /\ closePc = "wait"
    /\ WgWaitReturns(wg)
    /\ closePc' = "close"
    /\ waitEarly' = (aggPc \in {"got", "done"})
    /\ UNCHANGED <<rtPc, rtReq, rtBody, aggPc, aggResp, wg, chanClosed, Accepted,
                   TopErrors, panicked, harvestedN, harvestedSum, processedN>>
    /\ UNCHANGED <<runVars, targetVars>>

\* Close, line 34: close(rt.c), return
CloseChan ==
    /\ Running
    /\ closePc = "close"
    /\ chanClosed' = TRUE
    /\ closePc' = "done"
    /\ UNCHANGED <<waitEarly, rtPc, rtReq, rtBody, aggPc, aggResp, wg, Accepted, TopErrors,
                   panicked, harvestedN, harvestedSum, processedN>>
    /\ UNCHANGED <<runVars, targetVars>>

\* -------------------------------------------------------- target.Target

\* a URL is a sequence of characters; these end in no, one or two "/"
Urls == { <<"h">>, <<"h", "/">>, <<"g">>, <<"g", "/", "/">> }

UrlLists == UNION { [1..k -> Urls] : k \in 1..MaxUrls }

\* defaultCfg: the ingestion path appended to every destination
Endpoint == <<"/intake/v2/events">>

defaultUserAgent == "hey-apm/1.0"

\* what the options leave in the Config: the compression and streaming
\* switches and the User-Agent header (none, blank, or one of the caller's)
Configs == [DisableCompression : BOOLEAN, Stream : BOOLEAN,
            UserAgent : {<<>>, <<"">>, <<"curl">>}]

\* buildBody: an empty or a non-empty payload
Payloads == { <<>>, <<"ndjson">> }

\* strings.TrimSuffix(url, "/"): one trailing "/" is removed
TrimSuffix(s) ==
    IF s # <<>> /\ s[Len(s)] = "/" THEN SubSeq(s, 1, Len(s) - 1) ELSE s

\* line 80: strings.TrimSuffix(url, "/") + cfg.Endpoint
Destination(url) == TrimSuffix(url) \o Endpoint

\* container/ring: a ring of n elements and the element pointed at
RingNew(n) == [vals |-> [i \in 1..n |-> <<>>], at |-> 1]
RingSet(r, v) == [r EXCEPT !.vals[r.at] = v]
RingValue(r) == r.vals[r.at]

\* ring.Next(): the element after the one pointed at, around the ring
RingStay(r) == r
RingNext(r) == [r EXCEPT !.at = (r.at % Len(r.vals)) + 1]

\* lines 79-82: each url is stored in the element pointed at, and the ring
\* is advanced
RECURSIVE FillRing(_, _)
FillRing(ring, us) ==
    IF us = <<>> THEN ring
    ELSE FillRing(RingNext(RingSet(ring, Destination(Head(us)))), Tail(us))

\* a body: the payload and how many times it went through gzip
NewBody(p) == [data |-> p, gz |-> 0]

\* gzip.NewWriter(&b).Write(t.Body): the output of gzip is never empty
Gzip(b) == [b EXCEPT !.gz = @ + 1]
BodyLen(b) == IF b.gz > 0 THEN Len(b.data) + 1 ELSE Len(b.data)

\* http.Header: for each name the list of its values, empty when not set
HeaderNames == {"User-Agent", "Authorization", "Content-Type",
                "Content-Encoding"}
NoHeader == [k \in HeaderNames |-> <<>>]

\* Header.Add appends a value
Add(h, k, v) == [h EXCEPT ![k] = Append(@, v)]

NoWork == [kind |-> "none", Method |-> "", url |-> <<>>, Header |-> NoHeader,
           RequestBody |-> NewBody(<<>>)]

\* no Target is built
TargetIdle ==
    /\ urls = <<>>
    /\ cfg = [DisableCompression |-> FALSE, Stream |-> FALSE, UserAgent |-> <<>>]
    /\ payload = <<>>
    /\ tgPc = "new"
    /\ URLs = RingNew(0)
    /\ Body = NewBody(<<>>)
    /\ Header = NoHeader
    /\ visited = <<>>
    /\ work = NoWork
    /\ getWorkN = 0

Pointer(r) == [at |-> r.at, val |-> RingValue(r)]

\* lines 71-84
NewTargetFromOptions ==
    /\ tgPc = "new"
    /\ urls # <<>>
    /\ tgPc' = "built"
    /\ URLs' = FillRing(RingNew(Len(urls)), urls)
    /\ Body' = NewBody(payload)
    /\ Header' = [NoHeader EXCEPT !["User-Agent"] = cfg.UserAgent]
    /\ visited' = <<Pointer(URLs')>>
    /\ UNCHANGED <<urls, cfg, payload, work, getWorkN>>
    /\ UNCHANGED <<runVars, tracerVars>>

\* the dispatch engine takes the destination pointed at and advances the
\* rotation: URLs = URLs.Next()
NextDestination ==
    /\ tgPc = "built"
    /\ Len(visited) < MaxUrls + 2
    /\ URLs' = RingNext(URLs)
    /\ visited' = Append(visited, Pointer(URLs'))
    /\ UNCHANGED <<urls, cfg, payload, tgPc, Body, Header, work, getWorkN>>
    /\ UNCHANGED <<runVars, tracerVars>>

\* lines 182-241
GetWork ==
    /\ tgPc = "built"
    /\ getWorkN < MaxGetWork
    /\ LET h1 == IF Header["User-Agent"] = <<>>
                 THEN Add(Header, "User-Agent", defaultUserAgent) ELSE Header
           h2 == Add(h1, "Authorization", "Bearer ")
           h3 == IF BodyLen(Body) > 0
                 THEN Add(h2, "Content-Type", "application/x-ndjson") ELSE h2
           b  == IF ~cfg.DisableCompression THEN Gzip(Body) ELSE Body
           h4 == IF ~cfg.DisableCompression
                 THEN Add(h3, "Content-Encoding", "gzip") ELSE h3
       IN /\ Body' = b
          /\ Header' = h4
          /\ work' = [kind |-> IF cfg.Stream THEN "StreamReq" ELSE "SimpleReq",
                      Method |-> "POST", url |-> RingValue(URLs),
                      Header |-> h4, RequestBody |-> b]
    /\ getWorkN' = getWorkN + 1
    /\ UNCHANGED <<urls, cfg, payload, tgPc, URLs, visited>>
    /\ UNCHANGED <<runVars, tracerVars>>

\* ----------------------------------------------------------------- Spec

RunNext ==
    \/ RunStart
    \/ RunRecv
    \/ RunJoin
    \/ RunFlush
    \/ RunReturn
    \/ \E w \in W : throttle(w)
    \/ \E w \in W : generatorFinish(w)
    \/ \E w \in W : generatorDone(w)
    \/ \E w \in W : generatorPulse(w)
    \/ \E w \in W : errorsSend(w)
    \/ \E w \in W : transactionsSpawn(w)
    \/ \E w \in W : spanStart(w)
    \/ \E w \in W : spanEnd(w)
    \/ \E w \in W : transactionsEnd(w)
    \/ handleSignalsDone

\* Run with an optional timeout and no interrupt
Init ==
    /\ RunArgs(MainWorkloads, {0, 1})
    /\ RunFresh
    /\ TracerFresh
    /\ TargetIdle

Next ==
    \/ RunNext
    \/ timeoutDone
    \/ timeoutFire

Spec == Init /\ [][Next]_vars

\* Run with an optional timeout while interrupts may arrive
InterruptInit ==
    /\ RunArgs(DefaultWorkloads, {0, 1})
    /\ RunFresh
    /\ TracerFresh
    /\ TargetIdle

InterruptNext ==
    \/ Next
    \/ Interrupt
    \/ handleSignalsRecv

InterruptSpec == InterruptInit /\ [][InterruptNext]_vars

\* Run of one workload with no timeout and no interrupt, under fair
\* scheduling of the goroutines and a pulse source that keeps ticking
SingleInit ==
    /\ RunArgs(SingleWorkloads, {0})
    /\ RunFresh
    /\ TracerFresh
    /\ TargetIdle

\* generatorDone is left out: the only generator is the first participant to
\* return, so it never finds the stop channel closed
SingleNext ==
    \/ RunStart
    \/ RunRecv
    \/ RunJoin
    \/ RunFlush
    \/ RunReturn
    \/ \E w \in W : throttle(w)
    \/ \E w \in W : generatorFinish(w)
    \/ \E w \in W : generatorPulse(w)
    \/ \E w \in W : errorsSend(w)
    \/ \E w \in W : transactionsSpawn(w)
    \/ \E w \in W : spanStart(w)
    \/ \E w \in W : spanEnd(w)
    \/ \E w \in W : transactionsEnd(w)
    \/ handleSignalsDone

SingleSpec ==
    /\ SingleInit
    /\ [][SingleNext]_vars
    /\ WF_vars(RunStart \/ RunRecv \/ RunJoin \/ RunFlush \/ RunReturn)
    /\ WF_vars(handleSignalsDone)
    /\ \A w \in W : WF_vars(throttle(w))
    /\ \A w \in W : WF_vars(generatorFinish(w)
                              \/ generatorPulse(w) \/ errorsSend(w)
                              \/ transactionsSpawn(w) \/ transactionsEnd(w))
    /\ \A w \in W : WF_vars(spanStart(w) \/ spanEnd(w))

\* Run with an optional timeout while interrupts may arrive, under fair
\* scheduling of Run and of each participant's goroutine.  Nothing is assumed
\* of the pulse sources, the timer and the arrival of interrupts: a pulse, the
\* deadline or an interrupt may never come.
LiveSpec ==
    /\ InterruptInit
    /\ [][InterruptNext]_vars
    /\ WF_vars(RunStart \/ RunRecv \/ RunJoin \/ RunFlush \/ RunReturn)
    /\ WF_vars(timeoutDone)
    /\ WF_vars(handleSignalsDone \/ handleSignalsRecv)
    /\ \A w \in W : WF_vars(generatorFinish(w) \/ generatorDone(w)
                              \/ generatorPulse(w) \/ errorsSend(w)
                              \/ transactionsSpawn(w) \/ transactionsEnd(w))
    /\ \A w \in W : WF_vars(spanStart(w) \/ spanEnd(w))

\* the Tracer: RoundTrip calls, the aggregation goroutine and Close, with Run
\* not started
TracerInit ==
    /\ workload = <<>>
    /\ runTimeout = 0
    /\ RunFresh
    /\ TracerFresh
    /\ TargetIdle

TracerNext ==
    \/ \E c \in Calls : RoundTripCall(c)
    \/ \E c \in Calls : RoundTripSend(c)
    \/ \E c \in Calls : RoundTripSendClosed(c)
    \/ \E c \in Calls : RoundTripAdd(c)
    \/ aggregate
    \/ aggregateDone
    \/ aggregateClosed
    \/ CloseTracer
    \/ CloseWait
    \/ CloseChan

TracerSpec == TracerInit /\ [][TracerNext]_vars

\* the same under fair scheduling of every RoundTrip call that has started,
\* of the aggregation goroutine and of Close
TracerLiveSpec ==
    /\ TracerInit
    /\ [][TracerNext]_vars
    /\ \A c \in Calls : WF_vars(RoundTripSend(c) \/ RoundTripSendClosed(c)
                                  \/ RoundTripAdd(c))
    /\ WF_vars(aggregate \/ aggregateDone \/ aggregateClosed)
    /\ WF_vars(CloseWait \/ CloseChan)

\* a Target is built from a list of urls and a Config, its rotation is
\* advanced and GetWork is called, with Run and the Tracer not started
TargetInit ==
    /\ workload = <<>>
    /\ runTimeout = 0
    /\ RunFresh
    /\ TracerFresh
    /\ urls \in UrlLists
    /\ cfg \in Configs
    /\ payload \in Payloads
    /\ tgPc = "new"
    /\ URLs = RingNew(0)
    /\ Body = NewBody(<<>>)
    /\ Header = NoHeader
    /\ visited = <<>>
    /\ work = NoWork
    /\ getWorkN = 0

TargetNext ==
    \/ NewTargetFromOptions
    \/ NextDestination
    \/ GetWork

TargetSpec == TargetInit /\ [][TargetNext]_vars


\* ---------------------------------------------------------------- claims

RunReceived == runPc \in {"joining", "stopped", "flushed", "returned"}

Generators == { w \in Given : gpc[w] # "absent" }

\* C1: once Close has closed rt.c and returned, every body RoundTrip sent on
\* rt.c has been processed by the aggregation goroutine, so that Accepted is
\* the sum of their "accepted" values; and no body is sent on the closed
\* channel.
C1_ShutdownSafe ==
    /\ closePc = "done" => Accepted = harvestedSum
    /\ panicked # "send on closed channel"

\* C2: the first participant to return makes Run close the stop channel for
\* all the others, and the error Run returns is that participant's return
\* value, whatever the participants returning later return.
C2_FirstReturnWins ==
    /\ done <=> RunReceived
    /\ done => first # NoResult
    /\ first # NoResult => ret[first.who] = first.err
    /\ RunReceived => runErr = first.err

C2_Witness ==
    /\ runPc = "returned"
    /\ \E p \in Participants : ret[p] \notin {None, runErr}

\* C3 as stated: with only workloads of positive Limit, no timeout and no
\* interrupt, every generator has emitted exactly its Limit events when Run
\* returns.
C3_AllToCompletion ==
    (/\ runPc = "returned"
     /\ runTimeout = 0
     /\ \A w \in Given : workload[w].Limit > 0)
    => \A w \in Given : emitted[w] = workload[w].Limit

\* C3 amended: with only workloads of positive Limit, no timeout and no
\* interrupt, when Run returns the generator that returned first has emitted
\* exactly its Limit events and every other generator at most its Limit.
C3_FirstToCompletion ==
    (/\ runPc = "returned"
     /\ runTimeout = 0
     /\ \A w \in Given : workload[w].Limit > 0)
    => /\ first.who \in Given
       /\ emitted[first.who] = workload[first.who].Limit
       /\ \A w \in Given : emitted[w] <= workload[w].Limit

C3_Witness ==
    /\ runPc = "returned"
    /\ runTimeout = 0
    /\ \A w \in Given : workload[w].Limit > 0
    /\ \E w \in Given : emitted[w] < workload[w].Limit

\* C4: when the timeout watchdog's deadline elapses before any other
\* participant returns, the watchdog returns nil, the stop channel is closed
\* so that every generator returns, and Run returns a nil error.
C4_TimeoutGraceful ==
    first.who = TimeoutP =>
        /\ runTimeout > 0
        /\ first.err = Nil
        /\ RunReceived => done /\ runErr = Nil
        /\ runPc = "returned" => \A w \in Generators : gpc[w] = "returned"

C4_Witness ==
    /\ runPc = "returned"
    /\ first.who = TimeoutP
    /\ \E w \in Generators : emitted[w] < workload[w].Limit

\* C5 as stated: when an interrupt is delivered before any participant has
\* returned, the interrupt watchdog returns a non-nil error, which is the
\* error Run returns, and every generator returns nil.
C5_InterruptDelivered ==
    (sigFirst /\ runPc = "returned") =>
        /\ ret[SignalP] # Nil
        /\ runErr = ret[SignalP]
        /\ \A w \in Generators : ret[w] = Nil

\* C5 amended: when the interrupt watchdog receives the interrupt and returns
\* before any other participant has returned, it returns a non-nil error,
\* which is the error Run returns, and every generator returns nil.
C5_InterruptFirst ==
    first.who = SignalP =>
        /\ first.err # Nil
        /\ RunReceived => runErr = first.err
        /\ runPc = "returned" =>
               \A w \in Generators : gpc[w] = "returned" /\ ret[w] = Nil

C5_Witness ==
    /\ runPc = "returned"
    /\ first.who = SignalP
    /\ runErr = InterruptErr
    /\ \E w \in Generators : emitted[w] < workload[w].Limit

\* C6: a run of one workload of Limit n > 0, with no timeout and no
\* interrupt and a pulse source that keeps ticking, eventually returns, with
\* a nil error and exactly n events handed to the tracer.
C6_SingleTerminates ==
    /\ <>(runPc = "returned")
    /\ [](runPc = "returned" =>
            /\ runErr = Nil
            /\ emitted[1] = workload[1].Limit
            /\ started[1] = workload[1].Limit)

C6_Witness ==
    /\ runPc = "returned"
    /\ workload[1].EventType = Error
    /\ workload[1].Limit = MaxLimit
    /\ emitted[1] = MaxLimit

\* C7: a workload of Limit 0 gets no generator and no pulse source: it emits
\* no event, takes no pulse and is never the participant that ends the run.
C7_ZeroLimitSkipped ==
    \A w \in Given : workload[w].Limit = 0 =>
        /\ gpc[w] = "absent"
        /\ thPc[w] = "none"
        /\ started[w] = 0
        /\ emitted[w] = 0
        /\ ret[w] = None
        /\ first.who # w

C7_Witness ==
    /\ runPc = "returned"
    /\ \E w \in Given : workload[w].Limit = 0
    /\ \E w \in Given : workload[w].Limit > 0 /\ first.who = w

\* C8: once the stop channel is closed no generator starts a new event.
C8_NoStartAfterCancel == \A w \in W : afterCancel[w] = 0

\* C9: a transaction is tagged and ended only when every span spawned for it
\* has started and ended; its tag is the number of spans started for it; and
\* span goroutines run only within the iteration of the transaction whose
\* context they captured.
C9_SpanBarrier ==
    \A w \in W :
        /\ tx[w].ended =>
               /\ tx[w].sStarted = tx[w].spanCount
               /\ tx[w].sEnded = tx[w].sStarted
               /\ tx[w].tag = Itoa(tx[w].sStarted)
               /\ tx[w].id = sent[w]
        /\ ~tx[w].ended => tx[w].tag = ""
        /\ gpc[w] # "tx" => tx[w].sEnded = tx[w].spawned
        /\ gpc[w] = "tx" => ~tx[w].ended /\ tx[w].id = sent[w] + 1

C9_Witness ==
    \E w \in W :
        /\ tx[w].ended
        /\ tx[w].id = 2
        /\ tx[w].spanCount = 2
        /\ tx[w].tag = "2"

\* C10: a body that does not parse does not end the aggregation goroutine:
\* while rt.c is open the goroutine is there to receive the next body.
C10_ParseErrorNotFatal == aggPc = "exited" => chanClosed

\* C11: whatever error Run returns, report.Stop is read when all participants
\* have returned, then FlushAll runs to its end, then report.End is read,
\* then the statistics: Start <= Stop <= End, no event is emitted once the
\* flush has begun, and the Report carries the statistics of all events.
C11_OrderedShutdown ==
    /\ runPc \in {"start", "waiting", "joining"} => report.Stop = NoTime
    /\ runPc \in {"stopped", "flushed", "returned"} =>
           /\ AllReturned
           /\ report.Start # NoTime
           /\ report.Start <= report.Stop
    /\ runPc = "stopped" => report.End = NoTime /\ flushedN = 0
    /\ runPc \in {"flushed", "returned"} =>
           /\ report.Stop <= report.End
           /\ flushedN = emitted[1] + emitted[2]
    /\ runPc = "flushed" => report.Stats = 0
    /\ runPc = "returned" => report.Stats = emitted[1] + emitted[2]

C11_Witness ==
    /\ runPc = "returned"
    /\ runErr = InterruptErr
    /\ report.Stats > 0
    /\ report.Stop < report.End

\* C14: the counter of outstanding responses is incremented before a body is
\* sent on rt.c and decremented only when the aggregation goroutine has
\* finished with it, so that the counter is at least the number of bodies
\* the aggregation goroutine holds.
C14_CounterProtocol ==
    wg >= (IF aggPc \in {"got", "done"} THEN 1 ELSE 0)

\* C15: once a participant of Run has returned, every participant returns
\* and Run returns, also when a generator waits for a pulse that never comes
\* and when a transaction generator is waiting for the spans of a
\* transaction.
C15_CancellationLive ==
    (first # NoResult) ~> (runPc = "returned" /\ AllReturned)

C15_Witness ==
    /\ done
    /\ gpc[1] = "tx"
    /\ tx[1].sEnded < tx[1].spanCount
    /\ gpc[2] = "loop"
    /\ thPc[2] = "recv"
    /\ LoopCond(sent[2], workload[2].Limit)

\* C16: with or without cancellation, timeout or interrupt, a generator
\* takes at most Limit pulses, emits one event for each pulse it took, hence
\* at most Limit events, and returns nil, at Limit and on cancellation.
C16_GeneratorBound ==
    \A w \in Given :
        /\ started[w] <= workload[w].Limit
        /\ emitted[w] <= workload[w].Limit
        /\ sent[w] = emitted[w]
        /\ gpc[w] \in {"tx", "err"} => started[w] = emitted[w] + 1
        /\ gpc[w] \notin {"tx", "err"} => started[w] = emitted[w]
        /\ gpc[w] = "returned" <=> ret[w] # None
        /\ ret[w] \in {None, Nil}

C16_Witness ==
    /\ runPc = "returned"
    /\ runErr = InterruptErr
    /\ \E w \in Given : /\ ret[w] = Nil
                         /\ started[w] = workload[w].Limit
                         /\ afterCancel[w] > 0
    /\ \E w \in Given : /\ ret[w] = Nil
                         /\ 0 < started[w]
                         /\ started[w] < workload[w].Limit

\* a call returned from RoundTrip without harvesting
PassedThrough(c) == rtPc[c] = "idle" /\ rtPc'[c] = "returned"

\* a step of a call that harvests: the send on rt.c or the wg.Add
HarvestStep(c) == rtPc[c] \in {"send", "add"} /\ rtPc'[c] # rtPc[c]

\* what a RoundTrip call has recorded of its request
RequestKept ==
    \A c \in Calls :
        /\ rtPc[c] # "idle" =>
               /\ rtReq[c].verbose = rtReq[c].ingestion
               /\ rtReq[c].err = rtReq[c].terr
        /\ rtPc[c] \in {"send", "add"} =>
               rtReq[c].ingestion /\ rtReq[c].terr = NoErr

\* a step harvests only within a harvesting call, and a call that returns
\* without harvesting leaves rt.c, the counter and TransportStats alone
HarvestFrame ==
    /\ \A c \in Calls : rtPc[c] # "idle" => rtReq'[c] = rtReq[c]
    /\ \A c \in Calls :
           PassedThrough(c) =>
               UNCHANGED <<wg, aggPc, aggResp, chanClosed, Accepted,
                           TopErrors, harvestedN>>
    /\ (wg' > wg \/ harvestedN' # harvestedN) =>
           \E c \in Calls : HarvestStep(c)

\* C17: RoundTrip sends a body on rt.c and increments the counter only for a
\* request to an ingestion path that the transport answered with no error
\* and a readable body.  A request to another path is not tagged verbose, a
\* transport error is returned as it is, and both leave rt.c, the counter
\* and TransportStats as they were.
C17_HarvestOnly == []RequestKept /\ [][HarvestFrame]_vars

C17_Witness ==
    /\ \E c \in Calls : rtPc[c] = "returned" /\ ~rtReq[c].ingestion
    /\ \E c \in Calls : /\ rtPc[c] = "returned"
                         /\ rtReq[c].ingestion
                         /\ rtReq[c].err = TransportErr
    /\ harvestedN = 0
    /\ wg = 0

\* no message occurs twice
NoDuplicate(list) ==
    \A i, j \in 1..Len(list) : i # j => list[i] # list[j]

\* the distinct elements of a list in the order of their first occurrence
RECURSIVE FirstOccurrences(_)
FirstOccurrences(list) ==
    IF list = <<>> THEN <<>>
    ELSE LET front == SubSeq(list, 1, Len(list) - 1)
             last == list[Len(list)]
         IN IF \E j \in 1..Len(front) : front[j] = last
            THEN FirstOccurrences(front)
            ELSE Append(FirstOccurrences(front), last)

\* the aggregation goroutine has processed the body it holds
Processed == aggPc = "got" /\ aggPc' = "done"

\* TransportStats in a state, against what was harvested
StatsKept ==
    /\ NoDuplicate(TopErrors)
    /\ Accepted = harvestedSum
                    - (IF aggPc = "got" /\ aggResp.accepted # Absent
                       THEN aggResp.accepted ELSE 0)

\* TransportStats changes only when a body is processed, and then by that body
StatsStep ==
    IF Processed
    THEN /\ TopErrors' = FirstOccurrences(TopErrors \o aggResp.errors)
         /\ Accepted' = Accepted + (IF aggResp.accepted = Absent
                                     THEN 0 ELSE aggResp.accepted)
    ELSE UNCHANGED <<Accepted, TopErrors>>

\* C18: TopErrors holds no message twice; each processed response extends
\* it to the distinct messages reported so far in the order of their first
\* occurrence and adds its "accepted" value, zero when it has none, to
\* Accepted, which is the sum over all processed responses.
C18_Aggregation == []StatsKept /\ [][StatsStep]_vars

C18_Witness ==
    /\ processedN = 2
    /\ Len(TopErrors) = 1
    /\ Accepted = 1
    /\ aggPc = "recv"

\* C19: the counter of outstanding responses is never negative, and Close's
\* wait for zero does not return while the aggregation goroutine holds a
\* body it has not finished.
C19_CounterNonNegative ==
    /\ wg >= 0
    /\ panicked # "negative WaitGroup counter"
    /\ ~waitEarly

\* C12: for a Target built from k >= 1 urls the rotation first points at the
\* first destination, each step advances it by one position, so that k steps
\* visit the destinations once each in the given order and the next one is
\* the first again.
C12_Rotation ==
    tgPc = "built" =>
        /\ Len(URLs.vals) = Len(urls)
        /\ URLs.at = visited[Len(visited)].at
        /\ \A n \in 1..Len(visited) :
               /\ visited[n].at = ((n - 1) % Len(urls)) + 1
               /\ visited[n].val = Destination(urls[((n - 1) % Len(urls)) + 1])

C12_Witness ==
    /\ tgPc = "built"
    /\ Len(urls) = MaxUrls
    /\ Len(visited) = MaxUrls + 1
    /\ visited[MaxUrls + 1] = visited[1]
    /\ \A i, j \in 1..MaxUrls : i # j => visited[i].val # visited[j].val

\* C13: the body of every descriptor GetWork returns is the payload built for
\* the Target, compressed once when compression is enabled, with the gzip
\* encoding recorded once, and untouched, with no encoding recorded, when
\* compression is disabled.
C13_CompressedOnce ==
    getWorkN > 0 =>
        IF ~cfg.DisableCompression
        THEN /\ work.RequestBody = Gzip(NewBody(payload))
             /\ work.Header["Content-Encoding"] = <<"gzip">>
        ELSE /\ work.RequestBody = NewBody(payload)
             /\ work.Header["Content-Encoding"] = <<>>

\* C20: whatever bodies were harvested, parsable or not, once Close waits
\* for the counter of outstanding responses it eventually returns, and once
\* it has returned the aggregation goroutine ends.
C20_CloseTerminates ==
    /\ (closePc = "wait") ~> (closePc = "done")
    /\ (closePc = "done") ~> (aggPc = "exited")

====
